---- MODULE Spec2Model ----
(***************************************************************************)
(* Model of be/main.py: the /exchange-rates and /analyze-csv handlers, the *)
(* tabular pipeline (pivot, resample, per-currency statistics) and the     *)
(* PostgreSQL import (store_exchange_rates_in_db under get_db_connection). *)
(*                                                                         *)
(* Representation                                                          *)
(*   date string  'YYYY-MM-DD'  : the integer YYYYMMDD (0 is the empty     *)
(*                                string)                                  *)
(*   datetime / pandas Timestamp: days since 1970-01-01 (an integer)       *)
(*   DataFrame                  : [index, columns, cells]; cells is a      *)
(*                                function on a subset of index x columns; *)
(*                                a key outside its domain is a NaN cell   *)
(*   rates                      : naturals, in units of 0.0000001; NaN is  *)
(*                                the float nan of an empty CSV field      *)
(*   percentage_change          : hundredths of a percent                  *)
(***************************************************************************)
EXTENDS Integers, Sequences, FiniteSets, TLC

\* ------------------------------------------------------------------ bounds
MaxRows == 2

MaxImports == 2

\* ------------------------------------------------------------- input sets
Currencies == {"EUR", "GBP"}

\* 0, 0.0000004 and 0.000001
Rates == {0, 4, 10}

\* float('nan'): what read_csv gives for an empty Rate field
NaN == -1

\* Tue 2024-01-30, Thu 2024-02-01 (same week, next month), Tue 2024-02-06
DataDates == {20240130, 20240201, 20240206}

\* 2024-02-30 is not a calendar date: strptime raises ValueError on it
ReqDates == {19981231, 19990102, 19990104, 20240130, 20240215, 20240216, 20240230}

Intervals == {"1d", "1wk", "1mo", "1h"}

CurrencyLists == {<< >>, <<"EUR">>, <<"EUR", "GBP">>}

Filenames == {"rates.csv"}

\* datetime.now() falls on this day
Today == 20240215

\* ---------------------------------------------------------------- calendar
YearOf(s) == s \div 10000

MonthOf(s) == (s \div 100) % 100

DayOf(s) == s % 100

IsLeap(y) == (y % 4 = 0 /\ y % 100 # 0) \/ y % 400 = 0

DaysInMonth(y, m) ==
    IF m = 2 THEN (IF IsLeap(y) THEN 29 ELSE 28)
    ELSE IF m \in {4, 6, 9, 11} THEN 30 ELSE 31

\* the '%Y-%m-%d' format accepts the string
ValidDateString(s) ==
    /\ YearOf(s) \in 1..9999
    /\ MonthOf(s) \in 1..12
    /\ DayOf(s) \in 1..DaysInMonth(YearOf(s), MonthOf(s))

\* days from 0000-03-01 to day d of month m of the March-based year y
DaysFromCivil(y, m, d) ==
    (y \div 400) * 146097 + (y % 400) * 365 + (y % 400) \div 4 - (y % 400) \div 100
    + (153 * (IF m > 2 THEN m - 3 ELSE m + 9) + 2) \div 5 + d - 1

\* datetime.strptime / pd.to_datetime: date string -> day number
strptime(s) ==
    DaysFromCivil(IF MonthOf(s) <= 2 THEN YearOf(s) - 1 ELSE YearOf(s),
                  MonthOf(s), DayOf(s)) - 719468

\* the date string of day d of month m, the year counted from March
DateString(y, m, d) == (y + (IF m <= 2 THEN 1 ELSE 0)) * 10000 + m * 100 + d

\* from the March-based year y and the day doy of it
CivilFromDayOfYear(y, doy) ==
    DateString(y,
               IF (5 * doy + 2) \div 153 < 10 THEN (5 * doy + 2) \div 153 + 3
               ELSE (5 * doy + 2) \div 153 - 9,
               doy - (153 * ((5 * doy + 2) \div 153) + 2) \div 5 + 1)

\* from the 400-year era, the day doe of the era and the year yoe of the era
CivilFromYearOfEra(era, doe, yoe) ==
    CivilFromDayOfYear(yoe + era * 400,
                       doe - (365 * yoe + yoe \div 4 - yoe \div 100))

CivilFromEra(era, doe) ==
    CivilFromYearOfEra(era, doe,
        (doe - doe \div 1460 + doe \div 36524 - doe \div 146096) \div 365)

\* strftime('%Y-%m-%d'): day number -> date string
strftime(z) == CivilFromEra((z + 719468) \div 146097, (z + 719468) % 146097)

\* Monday = 0 ... Sunday = 6 (1970-01-01 was a Thursday)
Weekday(z) == (z + 3) % 7

\* resample('W'): weeks end on Sunday, the bin is labelled by that Sunday
WeekEnd(z) == z + (6 - Weekday(z))

\* the last day of the month of date string s
LastOfMonth(s) ==
    strptime(YearOf(s) * 10000 + MonthOf(s) * 100
             + DaysInMonth(YearOf(s), MonthOf(s)))

\* resample('M'): the bin is labelled by the last day of the month
MonthEnd(z) == LastOfMonth(strftime(z))

BinLabel(rule, z) == IF rule = "W" THEN WeekEnd(z) ELSE MonthEnd(z)

\* --------------------------------------------------------------- utilities
SetMin(S) == CHOOSE x \in S : \A y \in S : x <= y

SetMax(S) == CHOOSE x \in S : \A y \in S : x >= y

RECURSIVE SortedSeq(_)
SortedSeq(S) ==
    IF S = {} THEN << >>
    ELSE LET m == SetMin(S) IN <<m>> \o SortedSeq(S \ {m})

SeqRange(s) == {s[i] : i \in 1..Len(s)}

\* Series.unique().tolist(): first occurrences, in order
Unique(s) ==
    LET keep(i) == \A j \in 1..(i - 1) : s[j] # s[i]
        RECURSIVE Go(_)
        Go(i) == IF i > Len(s) THEN << >>
                 ELSE (IF keep(i) THEN <<s[i]>> ELSE << >>) \o Go(i + 1)
    IN  Go(1)

\* -------------------------------------------------------------- DataFrames
EmptyCells == [k \in {} |-> 0]

\* pd.DataFrame()
EmptyDataFrame == [index |-> {}, columns |-> {}, cells |-> EmptyCells]

\* DataFrame.empty: some axis has length 0
IsEmpty(df) == df.index = {} \/ df.columns = {}

NotNa(df, d, c) == <<d, c>> \in DOMAIN df.cells

\* the (date, value) pairs of column c on the dates ds
ColumnAt(df, c, ds) == [i \in 1..Len(ds) |-> <<ds[i], df.cells[<<ds[i], c>>]>>]

\* df[c].dropna(): the (date, value) pairs present, by ascending date
ColumnDropNa(df, c) ==
    ColumnAt(df, c, SortedSeq({d \in df.index : NotNa(df, d, c)}))

\* the tables a set of at most n cells can make (no two cells on one key)
TablesOver(dates, curs, rates, n) ==
    LET keys == dates \X curs
        doms == {K \in SUBSET keys : Cardinality(K) <= n}
    IN  UNION {[K -> rates] : K \in doms}

\* ------------------------------------------------------- exceptions, values
\* a call's outcome: its value, or the exception it raised
Return(v) == [raised |-> FALSE, exc |-> "", code |-> 0, text |-> "", value |-> v]

Raise(e, t) ==
    [raised |-> TRUE, exc |-> e, code |-> 0, text |-> t, value |-> EmptyDataFrame]

\* raise HTTPException(status_code=code, detail=t); HTTPException is an Exception
RaiseHTTP(code, t) ==
    [raised |-> TRUE, exc |-> "HTTPException", code |-> code, text |-> t,
     value |-> EmptyDataFrame]

\* ------------------------------------------------------ fetch_currency_data
\* what the upstream HTTP call can do
UpstreamOutcomes ==
    {[kind |-> "exception", rates |-> EmptyCells],
     [kind |-> "non200", rates |-> EmptyCells],
     [kind |-> "no_rates", rates |-> EmptyCells]}
    \cup {[kind |-> "ok", rates |-> t] :
            t \in TablesOver(DataDates, Currencies, Rates, MaxRows)}

\* pd.DataFrame(rates_data).T, index to datetime, sorted
FrameOfRates(rates) ==
    [index   |-> {strptime(k[1]) : k \in DOMAIN rates},
     columns |-> {k[2] : k \in DOMAIN rates},
     cells   |-> [k \in {<<strptime(j[1]), j[2]>> : j \in DOMAIN rates}
                    |-> rates[<<strftime(k[1]), k[2]>>]]]

fetch_currency_data_raising(o) ==
    IF o.kind = "ok" THEN Return(FrameOfRates(o.rates))
    ELSE IF o.kind = "exception" THEN Raise("ConnectionError", "upstream unreachable")
    ELSE Return(EmptyDataFrame)

fetch_currency_data(o) ==
    IF o.kind = "exception" THEN Return(EmptyDataFrame)
    ELSE IF o.kind = "ok" THEN Return(FrameOfRates(o.rates))
    ELSE Return(EmptyDataFrame)

\* --------------------------------------------------------- process_csv_data
RequiredColumns == {"Date", "Currency", "Rate"}

\* the sequences of at most n of the records recs
RECURSIVE SeqsOver(_, _)
SeqsOver(recs, n) ==
    IF n = 0 THEN {<< >>}
    ELSE LET shorter == SeqsOver(recs, n - 1)
         IN  shorter \cup {Append(s, r) : s \in {t \in shorter : Len(t) = n - 1}, r \in recs}

\* the rows a CSV body of at most n lines can hold; a Rate field may be empty
RowSeqs(n) ==
    SeqsOver([Date : DataDates, Currency : Currencies, Rate : Rates \cup {NaN}], n)

CsvFiles ==
    {[columns |-> RequiredColumns, rows |-> r] : r \in RowSeqs(MaxRows)}
    \cup {[columns |-> {"Date", "Currency"}, rows |-> << >>]}

NoFile == [columns |-> {}, rows |-> << >>]

\* rows with Date already converted, inside [start, end] and of the currencies
FilterRows(rows, currencies, start_date, end_date) ==
    SelectSeq([i \in 1..Len(rows) |->
                  [Date |-> strptime(rows[i].Date), Currency |-> rows[i].Currency,
                   Rate |-> rows[i].Rate]],
              LAMBDA r : /\ r.Date >= strptime(start_date)
                         /\ r.Date <= strptime(end_date)
                         /\ r.Currency \in SeqRange(currencies))

HasDuplicates(rows) ==
    \E i, j \in 1..Len(rows) :
        i < j /\ rows[i].Date = rows[j].Date /\ rows[i].Currency = rows[j].Currency

\* DataFrame.pivot(index='Date', columns='Currency', values='Rate')
pivot(rows) ==
    LET keys == {<<rows[i].Date, rows[i].Currency>> : i \in 1..Len(rows)}
        at(k) == CHOOSE i \in 1..Len(rows) : <<rows[i].Date, rows[i].Currency>> = k
    IN  IF HasDuplicates(rows)
        THEN Raise("ValueError", "Index contains duplicate entries, cannot reshape")
        ELSE Return([index |-> {k[1] : k \in keys}, columns |-> {k[2] : k \in keys},
                     cells |-> [k \in {j \in keys : rows[at(j)].Rate # NaN}
                                  |-> rows[at(k)].Rate]])

process_csv_data(file, currencies, start_date, end_date) ==
    IF ~(RequiredColumns \subseteq file.columns)
    THEN Raise("ValueError", "CSV must contain columns: Date, Currency, Rate")
    ELSE pivot(FilterRows(file.rows, currencies, start_date, end_date))

\* ------------------------------------------------------------ resample_data
\* df.resample(rule): one bin per period from the first to the last date
Bins(df, rule) == {BinLabel(rule, z) : z \in SetMin(df.index)..SetMax(df.index)}

\* the dates of bin b on which column c has a value
ValuedDates(df, rule, b, c) ==
    {d \in df.index : BinLabel(rule, d) = b /\ NotNa(df, d, c)}

\* the frame of the bins with, per bin and column, the column's last value
LastOfBins(df, rule, bins) ==
    [index |-> bins, columns |-> df.columns,
     cells |-> [k \in {j \in bins \X df.columns :
                          ValuedDates(df, rule, j[1], j[2]) # {}}
                  |-> df.cells[<<SetMax(ValuedDates(df, rule, k[1], k[2])), k[2]>>]]]

\* .last(): per bin and column, the last non-NaN value of the column
ResampleLast(df, rule) == LastOfBins(df, rule, Bins(df, rule))

\* the rows of df on the dates keep
Rows(df, keep) ==
    [index |-> keep, columns |-> df.columns,
     cells |-> [k \in {j \in DOMAIN df.cells : j[1] \in keep} |-> df.cells[k]]]

\* DataFrame.dropna(): drops every row that has any NaN cell
dropna(df) == Rows(df, {d \in df.index : \A c \in df.columns : NotNa(df, d, c)})

resample_data(df, interval) ==
    IF IsEmpty(df) THEN df
    ELSE IF interval = "1d" THEN df
    ELSE IF interval = "1wk" THEN dropna(ResampleLast(df, "W"))
    ELSE IF interval = "1mo" THEN dropna(ResampleLast(df, "M"))
    ELSE df

\* ------------------------------------------------- per-currency statistics
\* a float that is not finite (inf or nan)
NotFinite == 1000000000

\* round(n / d, 0) for d > 0, ties to even
RoundDiv(n, d) ==
    LET q == n \div d
        r == n - q * d
    IN  IF 2 * r < d THEN q
        ELSE IF 2 * r > d THEN q + 1
        ELSE IF q % 2 = 0 THEN q ELSE q + 1

\* numpy-style division: a zero divisor gives inf/nan, nothing is raised
percentage_change_numpy(start_rate, end_rate) ==
    IF start_rate = 0 THEN Return(NotFinite)
    ELSE Return(RoundDiv((end_rate - start_rate) * 10000, start_rate))

\* round(((end_rate - start_rate) / start_rate) * 100, 2) on Python floats,
\* in hundredths of a percent; float division by zero raises
percentage_change(start_rate, end_rate) ==
    IF start_rate = 0 THEN Raise("ZeroDivisionError", "float division by zero")
    ELSE Return(RoundDiv((end_rate - start_rate) * 10000, start_rate))

Failure(currency, reason) ==
    [ok |-> FALSE, currency |-> currency, reason |-> reason, dates |-> << >>,
     rates |-> << >>, start_rate |-> 0, end_rate |-> 0, percentage_change |-> 0,
     min_rate |-> 0, max_rate |-> 0]

\* CurrencyData(...) from the non-missing rates (lines 424-442), or the
\* failure the division raised
StatisticsOf(currency, rates, pct) ==
    IF pct.raised THEN Failure(currency, pct.text)
    ELSE [ok |-> TRUE, currency |-> currency, reason |-> "",
          dates |-> [i \in 1..Len(rates) |-> strftime(rates[i][1])],
          rates |-> [i \in 1..Len(rates) |-> rates[i][2]],
          start_rate |-> rates[1][2], end_rate |-> rates[Len(rates)][2],
          percentage_change |-> pct.value,
          min_rate |-> SetMin({rates[i][2] : i \in 1..Len(rates)}),
          max_rate |-> SetMax({rates[i][2] : i \in 1..Len(rates)})]

\* lines 420-442 on rates = df[currency].dropna()
StatisticsOfRates(currency, rates) ==
    IF Len(rates) = 0 THEN Failure(currency, "Empty dataset")
    ELSE StatisticsOf(currency, rates,
                      percentage_change(rates[1][2], rates[Len(rates)][2]))

\* the body of the per-currency try block, once the column is known to exist
CurrencyStatistics(df, currency) ==
    StatisticsOfRates(currency, ColumnDropNa(df, currency))

\* the iteration without the test of line 413: the column is looked up at once
ProcessCurrencyCsv_unchecked(df, currency) == CurrencyStatistics(df, currency)

\* one iteration of the loop of build_currency_response
ProcessCurrencyCsv(df, currency) ==
    IF currency \notin df.columns THEN Failure(currency, "Not available in data")
    ELSE CurrencyStatistics(df, currency)

\* one iteration of the loop of get_exchange_rates
ProcessCurrencyApi(df, currency) ==
    IF currency \notin df.columns
    THEN Failure(currency, "Not available in API response")
    ELSE CurrencyStatistics(df, currency)

\* --------------------------------------------------------------- responses
Message(text, n, of) == [text |-> text, n |-> n, of |-> of]

\* CurrencyResponse; errors = << >> stands for None (the code never sends [])
CurrencyResponse(data, status, message, errors) ==
    [http |-> 200, data |-> data, status |-> status, message |-> message,
     errors |-> errors]

\* HTTPException(status_code, detail) as the client sees it
HTTPError(code, detail) ==
    [http |-> code, data |-> << >>, status |-> "", message |-> Message(detail, 0, 0),
     errors |-> << >>]

NoResponse == [http |-> 0, data |-> << >>, status |-> "",
               message |-> Message("", 0, 0), errors |-> << >>]

\* CurrencyData of one successful outcome
CurrencyData(o) ==
    [currency |-> o.currency, dates |-> o.dates, rates |-> o.rates,
     start_rate |-> o.start_rate, end_rate |-> o.end_rate,
     percentage_change |-> o.percentage_change,
     min_rate |-> o.min_rate, max_rate |-> o.max_rate]

\* CurrencyData of each outcome of a sequence of successes
DataOf(done) == [i \in 1..Len(done) |-> CurrencyData(done[i])]

\* result_data: the currencies that succeeded, in request order
DataEntries(outcomes) ==
    DataOf(SelectSeq(outcomes, LAMBDA o : o.ok))

ErrorEntry(o) == [currency |-> o.currency, reason |-> o.reason]

ErrorsOf(failed) == [i \in 1..Len(failed) |-> ErrorEntry(failed[i])]

\* failed_currencies: f"{currency} ({reason})"
ErrorEntries(outcomes) ==
    ErrorsOf(SelectSeq(outcomes, LAMBDA o : ~o.ok))

\* status from "any result at all", forgetting the failed currencies
ResponseOf_lenient(result_data, failed_currencies, requested) ==
    CurrencyResponse(result_data,
                     IF Len(result_data) = 0 THEN "error" ELSE "success",
                     Message("Successfully retrieved data for",
                             Len(result_data), requested),
                     failed_currencies)

\* the response the two lists of the finished loop give (lines 453-468)
ResponseOf(result_data, failed_currencies, requested) ==
    IF Len(result_data) = 0
    THEN CurrencyResponse(<< >>, "error",
             Message("No data found for any of the specified currencies", 0, 0),
             failed_currencies)
    ELSE CurrencyResponse(result_data,
             IF Len(failed_currencies) = 0 THEN "success" ELSE "partial",
             Message("Successfully retrieved data for", Len(result_data), requested),
             failed_currencies)

\* the outcomes of the loop over the requested currencies
OutcomesCsv(df, currencies) ==
    [i \in 1..Len(currencies) |-> ProcessCurrencyCsv(df, currencies[i])]

BuildFrom(outcomes, requested) ==
    ResponseOf(DataEntries(outcomes), ErrorEntries(outcomes), requested)

build_currency_response(df, currencies) ==
    BuildFrom(OutcomesCsv(df, currencies), Len(currencies))

\* ------------------------------------------------------- get_exchange_rates
ApiRequests ==
    [currencies : CurrencyLists, start_date : ReqDates, end_date : ReqDates,
     interval : Intervals, file : {NoFile}]

\* the checks with the interval check left out
ValidateRequest_no_interval(r) ==
    IF ~ValidDateString(r.start_date) \/ ~ValidDateString(r.end_date)
    THEN Raise("ValueError", "time data does not match format '%Y-%m-%d'")
    ELSE IF strptime(r.start_date) >= strptime(r.end_date)
    THEN RaiseHTTP(400, "Start date must be before end date")
    ELSE IF strptime(r.end_date) > strptime(Today)
    THEN RaiseHTTP(400, "End date cannot be in the future")
    ELSE IF YearOf(strftime(strptime(r.start_date))) < 1999
    THEN RaiseHTTP(400, "Start date must be 1999-01-04 or later")
    ELSE Return(EmptyDataFrame)

\* the checks before the fetch (lines 476-495)
ValidateRequest(r) ==
    IF ~ValidDateString(r.start_date) \/ ~ValidDateString(r.end_date)
    THEN Raise("ValueError", "time data does not match format '%Y-%m-%d'")
    ELSE IF strptime(r.start_date) >= strptime(r.end_date)
    THEN RaiseHTTP(400, "Start date must be before end date")
    ELSE IF strptime(r.end_date) > strptime(Today)
    THEN RaiseHTTP(400, "End date cannot be in the future")
    ELSE IF YearOf(strftime(strptime(r.start_date))) < 1999
    THEN RaiseHTTP(400, "Start date must be 1999-01-04 or later")
    ELSE IF r.interval \notin {"1d", "1wk", "1mo"}
    THEN RaiseHTTP(400, "Invalid interval. Must be one of: 1d, 1wk, 1mo")
    ELSE Return(EmptyDataFrame)

\* the except clauses of get_exchange_rates: ValueError first, then Exception
get_exchange_rates_except(e) ==
    IF e.exc = "ValueError" THEN HTTPError(400, "Invalid date format")
    ELSE HTTPError(500, "Internal server error")

PlainError(text) == <<[currency |-> "", reason |-> text]>>

\* the response of the loop of get_exchange_rates (lines 568-587)
ApiResponseOf(result_data, failed_currencies, requested) ==
    IF Len(result_data) = 0
    THEN CurrencyResponse(<< >>, "error",
             Message("No data found for any of the specified currencies", 0, 0),
             failed_currencies)
    ELSE CurrencyResponse(result_data,
             IF Len(failed_currencies) = 0 THEN "success" ELSE "partial",
             Message("Successfully retrieved data for", Len(result_data), requested),
             failed_currencies)

OutcomesApi(df, currencies) ==
    [i \in 1..Len(currencies) |-> ProcessCurrencyApi(df, currencies[i])]

ApiBuildFrom(outcomes, requested) ==
    ApiResponseOf(DataEntries(outcomes), ErrorEntries(outcomes), requested)

\* lines 508-587: table is the fetched frame, resampled its resampling
AfterResample(r, table, resampled) ==
    IF IsEmpty(resampled)
    THEN [resp |-> CurrencyResponse(<< >>, "error",
                      Message("No data available after resampling", 0, 0),
                      PlainError("Data is empty after applying the selected interval")),
          processed |-> table, df |-> resampled,
          calls |-> {"fetch_currency_data", "resample_data"}]
    ELSE [resp |-> ApiBuildFrom(OutcomesApi(resampled, r.currencies),
                                Len(r.currencies)),
          processed |-> table, df |-> resampled,
          calls |-> {"fetch_currency_data", "resample_data", "aggregate"}]

\* lines 498-587: fetched is what fetch_currency_data gave
AfterFetch(r, fetched) ==
    IF fetched.raised
    THEN [resp |-> get_exchange_rates_except(fetched), processed |-> EmptyDataFrame,
          df |-> EmptyDataFrame, calls |-> {"fetch_currency_data"}]
    ELSE IF IsEmpty(fetched.value)
    THEN [resp |-> CurrencyResponse(<< >>, "error",
                      Message("No data found for the specified criteria", 0, 0),
                      PlainError("Failed to fetch data from Frankfurter API")),
          processed |-> fetched.value, df |-> fetched.value,
          calls |-> {"fetch_currency_data"}]
    ELSE AfterResample(r, fetched.value, resample_data(fetched.value, r.interval))

\* get_exchange_rates from the fetch on (lines 497-587), o the upstream's answer:
\* the response, the table fetched, the table aggregated and the calls made
FetchAndBuild(r, o) == AfterFetch(r, fetch_currency_data(o))

\* -------------------------------------------------------------- analyze_csv
\* the currencies parameter is a comma-separated string, here its tokens
\* after strip(); << >> is the empty string
CsvCurrencyParams == {<< >>, <<"EUR", "GBP">>, <<"GBP", "">>}

CsvRequests ==
    [currencies : CsvCurrencyParams, start_date : {0, 20240201}, end_date : {0},
     interval : {"1d", "1wk", "1mo"}, file : CsvFiles]

\* line 618
CurrencyListOf(r) ==
    IF r.currencies # << >> THEN SelectSeq(r.currencies, LAMBDA c : c # "")
    ELSE Unique([i \in 1..Len(r.file.rows) |-> r.file.rows[i].Currency])

RowDates(r) == {strptime(r.file.rows[i].Date) : i \in 1..Len(r.file.rows)}

\* lines 621-624: the date range, taken from the CSV when not given
StartDateOf(r) ==
    IF r.start_date = 0 THEN strftime(SetMin(RowDates(r))) ELSE r.start_date

EndDateOf(r) ==
    IF r.end_date = 0 THEN strftime(SetMax(RowDates(r))) ELSE r.end_date

\* analyze_csv up to the call of store_exchange_rates_in_db (lines 604-635)
ReadAndProcess(r) ==
    IF ~(RequiredColumns \subseteq r.file.columns)
    THEN RaiseHTTP(400, "CSV must contain columns: Date, Currency, Rate")
    ELSE IF (r.start_date = 0 \/ r.end_date = 0) /\ RowDates(r) = {}
    THEN Raise("ValueError", "NaTType does not support strftime")
    ELSE process_csv_data(r.file, CurrencyListOf(r), StartDateOf(r), EndDateOf(r))

\* the except clause of analyze_csv: every Exception becomes a 500
analyze_csv_except(e) == HTTPError(500, "Error processing CSV")

\* a handler that lets the storage error escape its inner try
store_failure_aborts(result) == result = "raised"

\* the inner try around the store (lines 638-642): whether the error escapes
store_failure_escapes(result) == FALSE

\* lines 647-655: resampled is the resampled table
AfterResampleCsv(resampled, r) ==
    IF IsEmpty(resampled)
    THEN [resp |-> CurrencyResponse(<< >>, "error",
                      Message("No data available after resampling", 0, 0),
                      PlainError("Data is empty after applying the selected interval")),
          df |-> resampled, calls |-> {"resample_data"}]
    ELSE [resp |-> build_currency_response(resampled, CurrencyListOf(r)),
          df |-> resampled, calls |-> {"resample_data", "aggregate"}]

\* analyze_csv after the store (lines 644-655)
ResampleAndBuild(processed_df, r) ==
    AfterResampleCsv(resample_data(processed_df, r.interval), r)

\* ------------------------------------------- store_exchange_rates_in_db, DB
\* exchange_rates: (date, currency) -> rate, the UNIQUE(date, currency) rows;
\* csv_uploads: the audit rows in id order
EmptyDb == [exchange_rates |-> EmptyCells, csv_uploads |-> << >>]

NoTx == [open |-> FALSE, exchange_rates |-> EmptyCells, csv_uploads |-> << >>,
         ret |-> ""]

\* lines 124-133: the non-NaN cells as (date string, currency) -> rate
data_to_insert(df) ==
    [k \in {<<strftime(j[1]), j[2]>> : j \in DOMAIN df.cells}
        |-> df.cells[<<strptime(k[1]), k[2]>>]]

\* rate DECIMAL(18, 6) (line 63): the float rounded to six decimals, half up
to_decimal(rate) == ((2 * rate + 10) \div 20) * 10

\* ON CONFLICT (date, currency) DO NOTHING: a row already there is kept
Upsert_do_nothing(table, data) ==
    [k \in DOMAIN table \cup DOMAIN data |->
        IF k \in DOMAIN table THEN table[k] ELSE to_decimal(data[k])]

\* INSERT ... ON CONFLICT (date, currency) DO UPDATE SET rate = EXCLUDED.rate
Upsert(table, data) ==
    [k \in DOMAIN table \cup DOMAIN data |->
        IF k \in DOMAIN data THEN to_decimal(data[k]) ELSE table[k]]

\* the csv_uploads row of lines 149-155
AuditRow(df, filename) ==
    [filename |-> filename,
     records_count |-> Cardinality(DOMAIN data_to_insert(df)),
     date_range_start |-> strftime(SetMin(df.index)),
     date_range_end |-> strftime(SetMax(df.index))]

\* a connection in autocommit: what the statements wrote stays written
rollback_keeps(committed, t) ==
    [exchange_rates |-> t.exchange_rates, csv_uploads |-> t.csv_uploads]

\* conn.rollback() (line 45): the committed tables, untouched
rollback(committed, t) == committed

\* conn.commit() (line 42): the transaction's tables become the committed ones
commit(committed, t) ==
    [exchange_rates |-> t.exchange_rates, csv_uploads |-> t.csv_uploads]

\* the dates of the tables imported one after the other
StoreDates == {20240130, 20240201}

\* the non-empty tables process_csv_data makes of at most MaxRows rows of one
\* currency, which analyze_csv hands to store_exchange_rates_in_db: a date of
\* the index has a rate or, its Rate field being empty, none
StoreFrames ==
    LET days == {strptime(d) : d \in StoreDates}
        indexes == {ix \in SUBSET days : ix # {} /\ Cardinality(ix) <= MaxRows}
        cellsOf(ix) == UNION {[K \X {"EUR"} -> {4, 10}] : K \in SUBSET ix}
    IN  UNION {{[index |-> ix, columns |-> {"EUR"}, cells |-> c] : c \in cellsOf(ix)} :
                  ix \in indexes}

\* ------------------------------------------------------------------- state
VARIABLES
    pc,          \* where the request being handled stands
    endpoint,    \* "exchange-rates", "analyze-csv", or "direct" (a bare import)
    req,         \* the request
    upstream,    \* what the upstream API answered
    processed,   \* the table before resampling
    df,          \* the table after resampling
    resp,        \* the response sent
    calls,       \* the functions called while handling the request
    storeArgs,   \* the arguments of store_exchange_rates_in_db
    storeResult, \* "True", "False" or "raised"
    tx,          \* the open transaction's view of the tables
    db,          \* the committed tables
    before,      \* the committed tables when the import began
    imports,     \* number of imports begun
    history      \* the imports ended: what each was to write, and how it ended

vars == <<pc, endpoint, req, upstream, processed, df, resp, calls, storeArgs,
          storeResult, tx, db, before, imports, history>>

NoRequest == [currencies |-> << >>, start_date |-> 0, end_date |-> 0,
              interval |-> "", file |-> NoFile]

NoUpstream == [kind |-> "", rates |-> EmptyCells]

NoArgs == [df |-> EmptyDataFrame, filename |-> ""]

Init ==
    /\ pc = "idle"
    /\ endpoint = ""
    /\ req = NoRequest
    /\ upstream = NoUpstream
    /\ processed = EmptyDataFrame
    /\ df = EmptyDataFrame
    /\ resp = NoResponse
    /\ calls = {}
    /\ storeArgs = NoArgs
    /\ storeResult = ""
    /\ tx = NoTx
    /\ db = EmptyDb
    /\ before = EmptyDb
    /\ imports = 0
    /\ history = << >>

storeVars == <<storeArgs, storeResult, tx, db, before, imports, history>>

\* ------------------------------------------------- POST /exchange-rates
\* lines 475-495: parse and validate; a raise goes to the except clauses
GetExchangeRatesValidate(r) ==
    /\ pc = "idle"
    /\ endpoint' = "exchange-rates"
    /\ req' = r
    /\ \E v \in {ValidateRequest(r)} :
           IF v.raised
           THEN /\ resp' = get_exchange_rates_except(v)
                /\ pc' = "done"
           ELSE /\ resp' = resp
                /\ pc' = "fetch"
    /\ UNCHANGED <<upstream, processed, df, calls>>
    /\ UNCHANGED storeVars

\* lines 497-587: the upstream call and all that follows it
GetExchangeRatesFetch(o) ==
    /\ pc = "fetch"
    /\ upstream' = o
    /\ \E out \in {FetchAndBuild(req, o)} :
           /\ resp' = out.resp
           /\ processed' = out.processed
           /\ df' = out.df
           /\ calls' = calls \cup out.calls
    /\ pc' = "done"
    /\ UNCHANGED <<endpoint, req>>
    /\ UNCHANGED storeVars

\* ---------------------------------------------------- POST /analyze-csv
\* lines 604-639: read, validate, process, then enter the store
AnalyzeCsvStart(r, filename) ==
    /\ pc = "idle"
    /\ endpoint' = "analyze-csv"
    /\ req' = r
    /\ \E p \in {ReadAndProcess(r)} :
           IF p.raised
           THEN /\ resp' = analyze_csv_except(p)
                /\ pc' = "done"
                /\ UNCHANGED <<processed, calls, storeArgs, before, imports>>
           ELSE IF IsEmpty(p.value)
           THEN /\ resp' = CurrencyResponse(<< >>, "error",
                              Message("No data found in CSV for the specified criteria", 0, 0),
                              PlainError("Failed to process CSV data"))
                /\ pc' = "done"
                /\ processed' = p.value
                /\ UNCHANGED <<calls, storeArgs, before, imports>>
           ELSE /\ resp' = resp
                /\ pc' = "store_connect"
                /\ processed' = p.value
                /\ calls' = calls \cup {"store_exchange_rates_in_db"}
                /\ storeArgs' = [df |-> p.value, filename |-> filename]
                /\ before' = db
                /\ imports' = imports + 1
    /\ UNCHANGED <<upstream, df, storeResult, tx, db, history>>

\* lines 640-655: the store returned or raised; resample and answer
AnalyzeCsvFinish ==
    /\ pc = "store_return"
    /\ endpoint = "analyze-csv"
    /\ IF store_failure_escapes(storeResult)
       THEN /\ resp' = analyze_csv_except(Raise("Exception", "database"))
            /\ UNCHANGED <<df, calls>>
       ELSE \E out \in {ResampleAndBuild(processed, req)} :
                /\ resp' = out.resp
                /\ df' = out.df
                /\ calls' = calls \cup out.calls
    /\ pc' = "done"
    /\ UNCHANGED <<endpoint, req, upstream, processed>>
    /\ UNCHANGED storeVars

\* ------------------------------------- store_exchange_rates_in_db, stepwise
handlerVars == <<endpoint, req, upstream, processed, df, resp, calls>>

\* an ended call of store_exchange_rates_in_db: the rows it was to write, the
\* dates of its table, and how it ended
Ended(frame, result) ==
    [data |-> data_to_insert(frame), index |-> frame.index, result |-> result]

\* the exception leaves get_db_connection (rollback, close) and the store
StoreRaise ==
    /\ db' = (IF tx.open THEN rollback(db, tx) ELSE db)
    /\ tx' = NoTx
    /\ storeResult' = "raised"
    /\ history' = Append(history, Ended(storeArgs.df, "raised"))
    /\ pc' = "store_return"

\* line 40: psycopg2.connect, which opens the transaction, or fails
StoreConnect(ok) ==
    /\ pc = "store_connect"
    /\ IF ok
       THEN /\ tx' = [open |-> TRUE, exchange_rates |-> db.exchange_rates,
                      csv_uploads |-> db.csv_uploads, ret |-> "False"]
            /\ pc' = (IF DOMAIN data_to_insert(storeArgs.df) # {}
                      THEN "store_upsert" ELSE "store_commit")
            /\ UNCHANGED <<db, storeResult, history>>
       ELSE StoreRaise
    /\ UNCHANGED <<storeArgs, before, imports>>
    /\ UNCHANGED handlerVars

\* lines 137-146: the upsert of the data rows
StoreUpsert(ok) ==
    /\ pc = "store_upsert"
    /\ IF ok
       THEN /\ tx' = [tx EXCEPT !.exchange_rates =
                         Upsert(tx.exchange_rates, data_to_insert(storeArgs.df))]
            /\ pc' = "store_audit"
            /\ UNCHANGED <<db, storeResult, history>>
       ELSE StoreRaise
    /\ UNCHANGED <<storeArgs, before, imports>>
    /\ UNCHANGED handlerVars

\* lines 149-160: the audit row, then return True
StoreAudit(ok) ==
    /\ pc = "store_audit"
    /\ IF ok
       THEN /\ tx' = [tx EXCEPT !.csv_uploads =
                         Append(tx.csv_uploads, AuditRow(storeArgs.df, storeArgs.filename)),
                      !.ret = "True"]
            /\ pc' = "store_commit"
            /\ UNCHANGED <<db, storeResult, history>>
       ELSE StoreRaise
    /\ UNCHANGED <<storeArgs, before, imports>>
    /\ UNCHANGED handlerVars

\* line 42: leaving the with block commits
StoreCommit(ok) ==
    /\ pc = "store_commit"
    /\ IF ok
       THEN /\ db' = commit(db, tx)
            /\ storeResult' = tx.ret
            /\ history' = Append(history, Ended(storeArgs.df, tx.ret))
            /\ tx' = NoTx
            /\ pc' = "store_return"
       ELSE StoreRaise
    /\ UNCHANGED <<storeArgs, before, imports>>
    /\ UNCHANGED handlerVars

\* ------------------------------------------ imports one after the other
\* store_exchange_rates_in_db(df, filename) called on a table
StoreCall(t, filename) ==
    /\ pc = "idle"
    /\ imports < MaxImports
    /\ endpoint' = "direct"
    /\ storeArgs' = [df |-> t, filename |-> filename]
    /\ storeResult' = ""
    /\ before' = db
    /\ imports' = imports + 1
    /\ calls' = calls \cup {"store_exchange_rates_in_db"}
    /\ pc' = "store_connect"
    /\ UNCHANGED <<req, upstream, processed, df, resp, tx, db, history>>

StoreReturn ==
    /\ pc = "store_return"
    /\ endpoint = "direct"
    /\ pc' = "idle"
    /\ UNCHANGED <<endpoint, req, upstream, processed, df, resp, calls>>
    /\ UNCHANGED storeVars

\* ---------------------------------------------------------- specifications
StoreStep ==
    \/ \E ok \in BOOLEAN : StoreConnect(ok)
    \/ \E ok \in BOOLEAN : StoreUpsert(ok)
    \/ \E ok \in BOOLEAN : StoreAudit(ok)
    \/ \E ok \in BOOLEAN : StoreCommit(ok)

\* one request, from arrival to response
Next ==
    \/ pc = "idle" /\ \E r \in ApiRequests : GetExchangeRatesValidate(r)
    \/ pc = "fetch" /\ \E o \in UpstreamOutcomes : GetExchangeRatesFetch(o)
    \/ pc = "idle" /\ \E r \in CsvRequests, f \in Filenames : AnalyzeCsvStart(r, f)
    \/ StoreStep
    \/ AnalyzeCsvFinish

Spec == Init /\ [][Next]_vars

\* a run of imports against one database
NextStore ==
    \/ pc = "idle" /\ \E t \in StoreFrames, f \in Filenames : StoreCall(t, f)
    \/ StoreStep
    \/ StoreReturn

SpecStore == Init /\ [][NextStore]_vars

\* ------------------------------------------------------------------ claims
Requested == IF endpoint = "analyze-csv" THEN CurrencyListOf(req) ELSE req.currencies

Produced(c) == \E i \in 1..Len(resp.data) : resp.data[i].currency = c

Analysed == endpoint \in {"exchange-rates", "analyze-csv"}

\* C1: an analysis response for a non-empty list of requested currencies has
\* status "success" exactly when every requested currency has statistics in
\* data, "error" exactly when none has, "partial" exactly when some but not
\* all have, on the CSV path and on the API path alike.
C1_StatusCountsSuccesses ==
    (pc = "done" /\ Analysed /\ resp.http = 200 /\ Len(Requested) > 0) =>
        /\ resp.status = "success" <=> \A c \in SeqRange(Requested) : Produced(c)
        /\ resp.status = "error" <=> \A c \in SeqRange(Requested) : ~Produced(c)
        /\ resp.status = "partial" <=>
               /\ \E c \in SeqRange(Requested) : Produced(c)
               /\ \E c \in SeqRange(Requested) : ~Produced(c)

C1_Witness ==
    /\ pc = "done"
    /\ endpoint = "analyze-csv"
    /\ resp.http = 200
    /\ resp.status = "partial"
    /\ Len(Requested) = 2
    /\ "aggregate" \in calls

\* what the import in progress writes
ImportData == data_to_insert(storeArgs.df)

RowsWritten ==
    \A k \in DOMAIN ImportData :
        k \in DOMAIN db.exchange_rates /\ db.exchange_rates[k] = to_decimal(ImportData[k])

AuditWritten ==
    /\ Len(db.csv_uploads) = Len(before.csv_uploads) + 1
    /\ SubSeq(db.csv_uploads, 1, Len(before.csv_uploads)) = before.csv_uploads
    /\ db.csv_uploads[Len(db.csv_uploads)].filename = storeArgs.filename

\* C2: the upsert of the data rows and the insert of the audit row of one
\* import are committed together or not at all: the committed tables are
\* either those from before the import or hold both the rows and the audit
\* row, and after a failed import they are those from before the import.
C2_ImportIsOneTransaction ==
    /\ db = before \/ (RowsWritten /\ AuditWritten)
    /\ storeResult = "raised" => db = before
    /\ storeResult = "True" => RowsWritten /\ AuditWritten

C2_Witness ==
    /\ pc = "store_return"
    /\ storeResult = "raised"
    /\ Len(before.csv_uploads) > 0
    /\ \E k \in DOMAIN ImportData :
           \/ k \notin DOMAIN before.exchange_rates
           \/ before.exchange_rates[k] # to_decimal(ImportData[k])

\* the response of analyze_csv to a request when nothing goes wrong in storage
CsvResponseFor(r) == ResampleAndBuild(ReadAndProcess(r).value, r).resp

\* C3: once analyze_csv has called the store, the response is the one the
\* request gets when storage succeeds, whether the store returned or raised:
\* a storage failure neither aborts the request nor shows in the response.
C3_StoreFailureIsSwallowed ==
    (pc = "done" /\ endpoint = "analyze-csv"
        /\ "store_exchange_rates_in_db" \in calls) =>
        /\ storeResult \in {"True", "False", "raised"}
        /\ resp.http = 200
        /\ resp = CsvResponseFor(req)

C3_Witness ==
    /\ pc = "done"
    /\ endpoint = "analyze-csv"
    /\ storeResult = "raised"
    /\ db = before
    /\ resp.status = "success"

DatesParse(r) == ValidDateString(r.start_date) /\ ValidDateString(r.end_date)

\* start not before end, end after today, or an unsupported interval
BadRangeOrInterval(r) ==
    \/ DatesParse(r) /\ (r.start_date >= r.end_date \/ r.end_date > Today)
    \/ r.interval \notin {"1d", "1wk", "1mo"}

\* C4: an /exchange-rates request whose start is not before its end, whose
\* end is in the future or whose interval is unsupported is rejected, and at
\* no point of its handling is the upstream API or the storage called.
C4_RejectedBeforeAnyCall ==
    (endpoint = "exchange-rates" /\ BadRangeOrInterval(req)) =>
        /\ calls = {}
        /\ pc = "done"
        /\ resp.http \in 400..599
        /\ upstream = NoUpstream
        /\ db = EmptyDb /\ tx = NoTx

C4_Witness ==
    /\ endpoint = "exchange-rates"
    /\ pc = "done"
    /\ DatesParse(req)
    /\ req.start_date < req.end_date
    /\ req.end_date <= Today
    /\ YearOf(req.start_date) >= 1999
    /\ req.interval = "1h"

\* the request fails one of the validations the handlers make
ValidationError ==
    \/ /\ endpoint = "exchange-rates"
       /\ \/ DatesParse(req) /\ (\/ req.start_date >= req.end_date
                                 \/ req.end_date > Today
                                 \/ req.start_date < 19990104)
          \/ req.interval \notin {"1d", "1wk", "1mo"}
    \/ /\ endpoint = "analyze-csv"
       /\ ~(RequiredColumns \subseteq req.file.columns)

\* C5: every validation error (bad date range, end date in the future, start
\* date out of bounds, bad interval, CSV without a required column) fails the
\* request with an HTTP 4xx status, never with a 5xx.
C5_ValidationErrorIsClientError ==
    (pc = "done" /\ ValidationError) => resp.http \in 400..499

\* the rows of the upload left by the date and currency filters
FilteredRows == FilterRows(req.file.rows, CurrencyListOf(req), StartDateOf(req),
                           EndDateOf(req))

\* C6: when the rows inside the requested range and currency set repeat a
\* (date, currency) pair, reshaping succeeds and the table holds for every
\* pair the rate of its last record, one row per date.
C6_DuplicatesLastWriteWins ==
    (endpoint = "analyze-csv" /\ RequiredColumns \subseteq req.file.columns
        /\ Len(req.file.rows) > 0 /\ HasDuplicates(FilteredRows)) =>
        /\ resp.http # 500
        /\ processed.index = {FilteredRows[i].Date : i \in 1..Len(FilteredRows)}
        /\ \A i \in 1..Len(FilteredRows) :
               (\A j \in (i + 1)..Len(FilteredRows) :
                    \/ FilteredRows[j].Date # FilteredRows[i].Date
                    \/ FilteredRows[j].Currency # FilteredRows[i].Currency)
               => /\ NotNa(processed, FilteredRows[i].Date, FilteredRows[i].Currency)
                  /\ processed.cells[<<FilteredRows[i].Date, FilteredRows[i].Currency>>]
                         = FilteredRows[i].Rate

HasValue(t, c) == \E d \in t.index : NotNa(t, d, c)

\* the value of column c at its earliest date with a value
FirstValue(t, c) == t.cells[<<SetMin({d \in t.index : NotNa(t, d, c)}), c>>]

DivisionByZeroEntry(c) ==
    \E i \in 1..Len(resp.errors) :
        resp.errors[i] = [currency |-> c, reason |-> "float division by zero"]

\* C7: a requested currency whose first value in the aggregated table is 0
\* gets a division-by-zero entry in errors and no entry in data, no statistic
\* in the response is infinite or NaN, and the requested currencies whose
\* first value is not 0 still get their statistics.
C7_ZeroStartIsAFailureEntry ==
    (pc = "done" /\ Analysed /\ "aggregate" \in calls) =>
        /\ \A c \in SeqRange(Requested) :
               (c \in df.columns /\ HasValue(df, c)) =>
                   IF FirstValue(df, c) = 0
                   THEN DivisionByZeroEntry(c) /\ ~Produced(c)
                   ELSE Produced(c) /\ ~DivisionByZeroEntry(c)
        /\ \A i \in 1..Len(resp.data) :
               /\ resp.data[i].percentage_change # NotFinite
               /\ resp.data[i].start_rate # 0

C7_Witness ==
    /\ pc = "done"
    /\ endpoint = "exchange-rates"
    /\ "aggregate" \in calls
    /\ resp.status = "partial"
    /\ \E c \in SeqRange(Requested) : DivisionByZeroEntry(c)
    /\ \E c \in SeqRange(Requested) : Produced(c)

ResampleRule == IF req.interval = "1wk" THEN "W" ELSE "M"

\* the dates of partition b on which currency c has a value, before resampling
ValuedIn(b, c) == ValuedDates(processed, ResampleRule, b, c)

\* C8: weekly and monthly resampling treats each currency on its own: at a
\* partition's end date a currency holds the value of its last valued date
\* in the partition, or nothing when it has none, and a partition stays on
\* the date axis as soon as one currency has a value in it.
C8_ResamplePerCurrency ==
    (pc = "done" /\ Analysed /\ "resample_data" \in calls
        /\ req.interval \in {"1wk", "1mo"}) =>
        \A b \in {BinLabel(ResampleRule, d) : d \in processed.index} :
            /\ \A c \in processed.columns :
                   IF ValuedIn(b, c) # {}
                   THEN /\ NotNa(df, b, c)
                        /\ df.cells[<<b, c>>] = processed.cells[<<SetMax(ValuedIn(b, c)), c>>]
                   ELSE ~NotNa(df, b, c)
            /\ (\E c \in processed.columns : ValuedIn(b, c) # {}) => b \in df.index

\* C9: an /exchange-rates request whose start date is before 1999-01-04 is
\* rejected before the upstream API is called.
C9_StartBefore19990104Rejected ==
    (endpoint = "exchange-rates" /\ DatesParse(req) /\ req.start_date < 19990104) =>
        /\ pc = "done"
        /\ resp.http \in 400..599
        /\ "fetch_currency_data" \notin calls

\* C10: when the upstream answers with a non-200 status, without a rates
\* field, or the call throws, fetch_currency_data raises nothing and returns
\* an empty table, and get_exchange_rates answers 200 with status "error"
\* and empty data, having neither resampled nor aggregated.
C10_UpstreamFailureIsEmptyResult ==
    (endpoint = "exchange-rates"
        /\ upstream.kind \in {"non200", "no_rates", "exception"}) =>
        /\ pc = "done"
        /\ IsEmpty(processed)
        /\ resp.http = 200
        /\ resp.status = "error"
        /\ Len(resp.data) = 0
        /\ calls = {"fetch_currency_data"}

C10_Witness ==
    /\ endpoint = "exchange-rates"
    /\ pc = "done"
    /\ upstream.kind = "exception"
    /\ resp.status = "error"

\* the imports that ended with the rows and the audit row committed
Successful == SelectSeq(history, LAMBDA h : h.result = "True")

\* the dates of the rows an import wrote
DatesWritten(h) == {k[1] : k \in DOMAIN h.data}

\* C11: after any sequence of imports csv_uploads holds one audit row for each
\* successful import, in order, and none for the others; the row's
\* records_count is the number of rows that import wrote and its
\* date_range_start and date_range_end are the least and greatest date among
\* the rows it wrote.
C11_AuditRowDescribesRowsWritten ==
    /\ Len(db.csv_uploads) = Len(Successful)
    /\ \A i \in 1..Len(db.csv_uploads) :
           /\ i <= Len(Successful)
           /\ db.csv_uploads[i].records_count = Cardinality(DOMAIN Successful[i].data)
           /\ db.csv_uploads[i].date_range_start = SetMin(DatesWritten(Successful[i]))
           /\ db.csv_uploads[i].date_range_end = SetMax(DatesWritten(Successful[i]))

\* errors names currency c with the given reason
FailureEntry(c, reason) ==
    \E i \in 1..Len(resp.errors) : resp.errors[i] = [currency |-> c, reason |-> reason]

\* a requested currency with a column whose statistics can be computed
Valid(c) == c \in df.columns /\ HasValue(df, c) /\ FirstValue(df, c) # 0

\* what the response owes the requested currencies without a column, when
\* their failure entries carry the given reason
AbsentCurrenciesFail(reason) ==
    /\ resp.http = 200
    /\ \A c \in SeqRange(Requested) :
           c \notin df.columns => FailureEntry(c, reason) /\ ~Produced(c)
    /\ \A c \in SeqRange(Requested) : Valid(c) => Produced(c)
    /\ \A c, a \in SeqRange(Requested) :
           (Len(Requested) = 2 /\ Valid(c) /\ a \notin df.columns) =>
               /\ resp.status = "partial"
               /\ Len(resp.data) = 1
               /\ resp.data[1].currency = c

AbsentReason ==
    IF endpoint = "analyze-csv" THEN "Not available in data"
    ELSE "Not available in API response"

KeysImported == UNION {DOMAIN Successful[i].data : i \in 1..Len(Successful)}

\* the rate the most recent successful import holding key k gave for it
LastGiven(k) ==
    Successful[SetMax({i \in 1..Len(Successful) : k \in DOMAIN Successful[i].data})].data[k]

\* the import that has just returned True left the keys it did not hold alone
OtherKeysKept ==
    (pc = "store_return" /\ storeResult = "True") =>
        \A k \in DOMAIN before.exchange_rates \ DOMAIN ImportData :
            k \in DOMAIN db.exchange_rates /\ db.exchange_rates[k] = before.exchange_rates[k]

\* C13 as stated: after any sequence of committed and failed imports
\* exchange_rates has one row for each (date, currency) some committed import
\* held, its rate is the rate the most recent of those imports gave, and the
\* keys an import did not hold keep their rate.
C13_RateIsLastGiven ==
    /\ DOMAIN db.exchange_rates = KeysImported
    /\ \A k \in DOMAIN db.exchange_rates : db.exchange_rates[k] = LastGiven(k)
    /\ OtherKeysKept

\* C13: after any sequence of committed and failed imports exchange_rates has
\* one row for each (date, currency) some committed import held, its rate is
\* the rate the most recent of those imports gave, rounded to six decimals as
\* the column stores it, and the keys an import did not hold keep their rate;
\* importing again a table whose rows are all there changes nothing.
C13_RateIsLastGivenRounded ==
    /\ DOMAIN db.exchange_rates = KeysImported
    /\ \A k \in DOMAIN db.exchange_rates : db.exchange_rates[k] = to_decimal(LastGiven(k))
    /\ OtherKeysKept
    /\ (pc = "store_return" /\ storeResult = "True"
           /\ \A k \in DOMAIN ImportData :
                  /\ k \in DOMAIN before.exchange_rates
                  /\ before.exchange_rates[k] = to_decimal(ImportData[k]))
          => db.exchange_rates = before.exchange_rates

C13_Witness ==
    /\ pc = "store_return"
    /\ storeResult = "True"
    /\ Len(Successful) = 2
    /\ \E k \in DOMAIN Successful[1].data \cap DOMAIN Successful[2].data :
           /\ to_decimal(Successful[1].data[k]) # to_decimal(Successful[2].data[k])
           /\ db.exchange_rates[k] = to_decimal(Successful[2].data[k])
    /\ DOMAIN before.exchange_rates \ DOMAIN ImportData # {}

====
